---- MODULE Spec2Model ----
(***************************************************************************)
(* Model of the per-request forwarding round trip of goproxy:              *)
(* ProxyCtx.RoundTrip with its writer and reader workers, the instrumented *)
(* connection proxyTCPConn and the body wrapper connCloser (proxy_conn.go).*)
(* One Request Context is driven through up to MaxCalls top-level calls.   *)
(***************************************************************************)
EXTENDS Integers, Sequences, FiniteSets, TLC

\* ---------------------------------------------------------------- bounds
MaxCalls == 2        \* top-level RoundTrip calls on the one context
MaxBytes == 1        \* bytes of a request / of a response head on the wire
MaxCloses == 2       \* Close calls on a returned response body

\* ------------------------------------------------------ program constants
DefaultTimeout == 5            \* conn.ReadTimeout / WriteTimeout, seconds
DefaultFallbackTimeout == 10   \* ctx.ForwardProxyFallbackTimeout after use

\* ------------------------------------------------------------ value sets
Nil == "nil"                   \* the nil error / nil response

LocalProxy == "127.0.0.1:8080"
RemoteProxy == "10.0.0.1:3128"
FallbackProxy == "10.0.0.2:3128"

DialErrors == {"dial tcp: connection refused"}
ResolveErrors == {"lookup: no such host"}
WriteErrors == {"write: broken pipe", "write: i/o timeout"}
ReadErrors == {"read: connection reset", "read: i/o timeout"}

\* The raw connections a dial can hand back, by how they take keepalive.
RawConns == {"tcp", "notTCP", "tcpKeepAliveFails", "tcpPeriodFails"}

\* strings.Contains(err.Error(), "timeout") over the error texts above
ContainsTimeout(e) == e \in {"write: i/o timeout", "read: i/o timeout"}

\* strings.HasPrefix(addr, "127.0.0.1") over the proxy addresses above
HasLocalPrefix(addr) == addr \in {LocalProxy}

\* A func() (string, string) value, or the nil func.
NoFallback == [present |-> FALSE, addr |-> "", extra |-> ""]
Fallbacks == {NoFallback,
              [present |-> TRUE, addr |-> FallbackProxy, extra |-> "x1"],
              [present |-> TRUE, addr |-> "", extra |-> "x1"]}

\* A RoundTripper value (with the result it returns), or the nil interface.
NoRoundTripper == [present |-> FALSE, resp |-> Nil, err |-> Nil]
RoundTrippers == {NoRoundTripper,
                  [present |-> TRUE, resp |-> "rtResp", err |-> Nil],
                  [present |-> TRUE, resp |-> Nil, err |-> "rt: failed"]}

\* What one resolveDomain call can return: address counts per family, error.
NoAnswer == [c4 |-> 0, c6 |-> 0, err |-> Nil]
ResolveOutcomes == [c4 : 0..1, c6 : 0..1, err : {Nil}]
                   \cup [c4 : {0}, c6 : {0}, err : ResolveErrors]

\* The metrics collaborator: all three counters nil, or all three set.
MetricsConfigs == {[Requests |-> FALSE, ProxyBandwidth |-> FALSE, TLSTimes |-> FALSE],
                   [Requests |-> TRUE, ProxyBandwidth |-> TRUE, TLSTimes |-> TRUE]}

Deadlines == {[r |-> 0, w |-> 0], [r |-> 7, w |-> 9]}
FallbackTimeouts == {[t |-> 0, s |-> 0], [t |-> 3, s |-> 4]}

\* The configurations a context starts from.  Direct mode never reads the
\* fallback flag, the backup resolver or the fallback timeouts, and forward
\* mode never reads the proxy deadlines, so those are fixed in that mode; a
\* loopback proxy differs from a remote one only in the metric label.
Configs ==
  [rt : {NoRoundTripper}, fp : {""}, fb : Fallbacks, fba : {FALSE}, bk : {""},
   mc : MetricsConfigs, dl : Deadlines, ft : {[t |-> 0, s |-> 0]}]
  \cup
  [rt : {NoRoundTripper}, fp : {RemoteProxy}, fb : Fallbacks,
   fba : BOOLEAN, bk : {"", "8.8.4.4:53"}, mc : MetricsConfigs,
   dl : {[r |-> 7, w |-> 9]}, ft : FallbackTimeouts]
  \cup
  [rt : {NoRoundTripper}, fp : {LocalProxy}, fb : Fallbacks,
   fba : {FALSE}, bk : {""}, mc : MetricsConfigs,
   dl : {[r |-> 7, w |-> 9]}, ft : {[t |-> 0, s |-> 0]}]
  \cup
  [rt : RoundTrippers \ {NoRoundTripper}, fp : {"", RemoteProxy},
   fb : {[present |-> TRUE, addr |-> FallbackProxy, extra |-> "x1"]},
   fba : {FALSE}, bk : {""}, mc : {[Requests |-> TRUE, ProxyBandwidth |-> TRUE, TLSTimes |-> TRUE]},
   dl : {[r |-> 7, w |-> 9]}, ft : {[t |-> 3, s |-> 4]}]

\* ------------------------------------------------------------- the state
VARIABLES
  ctx,          \* the ProxyCtx fields RoundTrip reads or writes
  metrics,      \* the counters behind ctx.ForwardMetricsCounters
  conn,         \* the proxyTCPConn of the current attempt
  pc,           \* the orchestrator's position in RoundTrip
  wpc, rpc,     \* the writer's and the reader's position
  werr, rres,   \* the values the workers are about to signal
  writeDone,    \* chan error, capacity 1
  readDone,     \* chan responseAndError, capacity 1
  ret,          \* what the top-level RoundTrip call returned
  calls,        \* top-level calls made so far
  closes,       \* Close calls made on the returned body
  hist          \* observations of the current top-level call

vars == <<ctx, metrics, conn, pc, wpc, rpc, werr, rres, writeDone, readDone,
          ret, calls, closes, hist>>

NoConn == [BytesWrote |-> 0, BytesRead |-> 0,
           ReadTimeout |-> 0, WriteTimeout |-> 0, IgnoreDeadlineErrors |-> FALSE,
           wDeadline |-> FALSE, rDeadline |-> FALSE,
           wireSent |-> 0, wireRcvd |-> 0,
           connCloses |-> 0, bodyCloses |-> 0,
           kaAttempted |-> FALSE, kaFailed |-> FALSE]

Labels == {"local", "spoof"} \X {"ok", "err"}
NoMetrics == [Requests |-> [l \in Labels |-> 0], ProxyBandwidth |-> 0, TLSTimes |-> 0]

NoRet == [resp |-> Nil, err |-> Nil]

\* The resolver answers of the dial failure just handled.
NoFailure == [set |-> FALSE, p |-> NoAnswer, b |-> NoAnswer, inc |-> FALSE,
              requests |-> FALSE, backup |-> FALSE]

NoHist == [dials |-> <<>>,        \* one entry per dial attempt of this call
           failure |-> NoFailure, \* the dial failure just handled
           fbAddr |-> "",         \* the address the callback returned
           fallbackCalls |-> 0,   \* invocations of the callback, all calls
           usedRT |-> FALSE,      \* the call was delegated to ctx.RoundTripper
           exit |-> "none",       \* the return statement that ended the call
           dialErr |-> Nil,       \* the error of the last failed dial
           flushFailed |-> FALSE, \* writer.Flush() returned an error
           readTried |-> FALSE,   \* the reader has called conn.Read
           readRecv |-> FALSE,    \* the orchestrator received from readDone
           okMetric |-> FALSE,    \* SetSuccessMetric was called
           retries |-> 0]         \* recursive re-entries of RoundTrip

\* ------------------------------------------------------------------ Init
Init ==
  /\ \E cf \in Configs :
       ctx = [RoundTripper |-> cf.rt,
              ForwardProxy |-> cf.fp,
              ForwardProxyProto |-> "",
              ForwardProxyAuth |-> "auth0",
              Accounting |-> "acct0",
              ForwardProxyErrorFallback |-> cf.fb,
              ForwardProxyErrorFallbackAuth |-> cf.fba,
              ForwardProxyFallbackTimeout |-> cf.ft.t,
              ForwardProxyFallbackSecondaryTimeout |-> cf.ft.s,
              BackupDNSResolver |-> cf.bk,
              ForwardMetricsCounters |-> cf.mc,
              ProxyReadDeadline |-> cf.dl.r,
              ProxyWriteDeadline |-> cf.dl.w,
              BytesSent |-> 0,
              BytesReceived |-> 0]
  /\ metrics = NoMetrics
  /\ conn = NoConn
  /\ pc = "idle"
  /\ wpc = "off" /\ rpc = "off"
  /\ werr = Nil /\ rres = NoRet
  /\ writeDone = <<>> /\ readDone = <<>>
  /\ ret = NoRet
  /\ calls = 0
  /\ closes = 0
  /\ hist = NoHist

\* ------------------------------------------------- helpers of RoundTrip
\* Variant: a supplied RoundTripper is not looked at.
UseRoundTripperNever(c) == FALSE

\* ctx.RoundTripper != nil
UseRoundTripper(c) == c.RoundTripper.present

\* The metric label derived from the forward-proxy address.
Target(c) == IF HasLocalPrefix(c.ForwardProxy) THEN "local" ELSE "spoof"

SetErrorMetric(c, m) ==
  IF c.ForwardProxy # "" /\ c.ForwardMetricsCounters.Requests
  THEN [m EXCEPT !.Requests[<<Target(c), "err">>] = @ + 1]
  ELSE m

SetSuccessMetric(c, m) ==
  IF c.ForwardProxy # "" /\ c.ForwardMetricsCounters.Requests
  THEN [m EXCEPT !.Requests[<<Target(c), "ok">>] = @ + 1]
  ELSE m

\* metric.Observe(tlsTime) when a latency observer is configured
ObserveTLS(c, m) ==
  IF c.ForwardMetricsCounters.TLSTimes THEN [m EXCEPT !.TLSTimes = @ + 1] ELSE m

\* metric.Add(BytesWrote + BytesRead) when a bandwidth counter is configured
AddBandwidth(c, m, cn) ==
  IF c.ForwardMetricsCounters.ProxyBandwidth
  THEN [m EXCEPT !.ProxyBandwidth = @ + cn.BytesWrote + cn.BytesRead]
  ELSE m

\* The writes to ctx before the forward-mode dial: the default protocol and
\* the fallback timeout that is replaced once the fallback dialer is built.
ForwardPrelude(c) ==
  LET c1 == IF c.ForwardProxyProto = "" THEN [c EXCEPT !.ForwardProxyProto = "http"] ELSE c
  IN IF c1.ForwardProxyFallbackTimeout > 0
     THEN [c1 EXCEPT !.ForwardProxyFallbackTimeout =
             IF c1.ForwardProxyFallbackSecondaryTimeout > 0
             THEN c1.ForwardProxyFallbackSecondaryTimeout
             ELSE DefaultFallbackTimeout]
     ELSE c1

\* The primary resolver's answer, replaced by the backup resolver's when the
\* primary fails and a backup is configured.
ResolverChain(c, p, b) ==
  IF p.err # Nil /\ c.BackupDNSResolver # "" THEN b ELSE p

\* Variant: one address family is enough.
RealFailureEither(r) == r.c4 > 0 \/ r.c6 > 0

\* len(c4) > 0 && len(c6) > 0
RealFailure(r) == r.c4 > 0 /\ r.c6 > 0

\* Variant: the callback is left in place after it was invoked.
ConsumeFallbackKept(c) == c

\* ctx.ForwardProxyErrorFallback = nil, right after the callback was invoked
ConsumeFallback(c) == [c EXCEPT !.ForwardProxyErrorFallback = NoFallback]

\* newForwardProxy != ""
RetryWith(fb) == fb.present /\ fb.addr # ""

\* Variant: the auxiliary string is stored, the returned address is not.
InstallFallbackNoAddress(c, fb) ==
  IF c.ForwardProxyErrorFallbackAuth
  THEN [c EXCEPT !.ForwardProxyAuth = fb.extra]
  ELSE [c EXCEPT !.Accounting = fb.extra]

\* Variant: the auxiliary string is stored in both fields.
InstallFallbackBoth(c, fb) ==
  [c EXCEPT !.ForwardProxy = fb.addr,
            !.ForwardProxyAuth = fb.extra,
            !.Accounting = fb.extra]

\* The callback's results stored into the context before the retry.
InstallFallback(c, fb) ==
  LET c1 == [c EXCEPT !.ForwardProxy = fb.addr]
  IN IF c1.ForwardProxyErrorFallbackAuth
     THEN [c1 EXCEPT !.ForwardProxyAuth = fb.extra]
     ELSE [c1 EXCEPT !.Accounting = fb.extra]

\* The err of "return nil, err" in the forward-mode failure branch: the name
\* err there is the one declared by "c4, c6, err := resolveDomain(...)",
\* which shadows the dial's err within the branch.
DialFailureError(derr, r) == r.err

\* Variant: the callback is looked at only when requests are counted.
HasFallbackCounted(c) ==
  c.ForwardProxyErrorFallback.present /\ c.ForwardMetricsCounters.Requests

\* ctx.ForwardProxyErrorFallback != nil
HasFallback(c) == c.ForwardProxyErrorFallback.present

\* Variant: the forward-mode branch is taken whatever the address.
ForwardModeAlways(c) == TRUE

\* ctx.ForwardProxy != "": the forward-mode branch of RoundTrip
ForwardMode(c) == c.ForwardProxy # ""

\* setTargetKA: true only in the direct-mode branch
SetTargetKA(c) == c.ForwardProxy = ""

\* proxyTCPConn.setKeepaliveParameters on the raw connection
SetKeepaliveParameters(raw) ==
  IF raw = "notTCP" THEN "Could not convert proxy conn to net.TCPConn"
  ELSE IF raw = "tcpKeepAliveFails" THEN "setsockopt: SO_KEEPALIVE failed"
  ELSE IF raw = "tcpPeriodFails" THEN "setsockopt: TCP_KEEPIDLE failed"
  ELSE Nil

\* newProxyTCPConn(rawConn) followed by the default timeouts
NewProxyTCPConn(raw) ==
  [NoConn EXCEPT !.ReadTimeout = DefaultTimeout,
                 !.WriteTimeout = DefaultTimeout,
                 !.IgnoreDeadlineErrors = TRUE]

\* Variant: the two caller deadlines are swapped.
DegradeSwapped(cn, c) ==
  [cn EXCEPT !.ReadTimeout = c.ProxyWriteDeadline,
             !.WriteTimeout = c.ProxyReadDeadline,
             !.IgnoreDeadlineErrors = FALSE]

\* The timeouts after a keepalive failure.
Degrade(cn, c) ==
  [cn EXCEPT !.ReadTimeout = c.ProxyReadDeadline,
             !.WriteTimeout = c.ProxyWriteDeadline,
             !.IgnoreDeadlineErrors = FALSE]

\* Wrap the raw connection and tune it.
WrapAndTuneConn(c, raw) ==
  LET cn == NewProxyTCPConn(raw)
  IN IF SetTargetKA(c)
     THEN LET kaErr == SetKeepaliveParameters(raw)
              cn1 == [cn EXCEPT !.kaAttempted = TRUE, !.kaFailed = kaErr # Nil]
          IN IF kaErr # Nil THEN Degrade(cn1, c) ELSE cn1
     ELSE cn

DialEntry(c, derr) ==
  [proxy |-> c.ForwardProxy, ok |-> derr = Nil,
   fb |-> c.ForwardProxyErrorFallback.present]

FailureEntry(c, p, b, inc) ==
  [set |-> TRUE, p |-> p, b |-> b, inc |-> inc,
   requests |-> c.ForwardMetricsCounters.Requests,
   backup |-> c.BackupDNSResolver # ""]

\* ---------------------------------------------------- the orchestrator
\* A caller invokes ctx.RoundTrip(req); the workers of an earlier exchange
\* have finished.
Call ==
  /\ pc \in {"idle", "done"}
  /\ calls < MaxCalls
  /\ wpc \in {"off", "exit"} /\ rpc \in {"off", "exit"}
  /\ pc' = "enter"
  /\ calls' = calls + 1
  /\ hist' = [NoHist EXCEPT !.fallbackCalls = hist.fallbackCalls]
  /\ conn' = NoConn
  /\ wpc' = "off" /\ rpc' = "off"
  /\ werr' = Nil /\ rres' = NoRet
  /\ writeDone' = <<>> /\ readDone' = <<>>
  /\ ret' = NoRet
  /\ closes' = 0
  /\ UNCHANGED <<ctx, metrics>>

\* Function entry: delegate to a supplied RoundTripper, else go on to dial.
Enter ==
  /\ pc = "enter"
  /\ IF UseRoundTripper(ctx)
     THEN /\ ret' = [resp |-> ctx.RoundTripper.resp, err |-> ctx.RoundTripper.err]
          /\ pc' = "done"
          /\ hist' = [hist EXCEPT !.usedRT = TRUE, !.exit = "roundTripper"]
     ELSE /\ pc' = "dial"
          /\ hist' = [hist EXCEPT !.failure = NoFailure]
          /\ UNCHANGED ret
  /\ UNCHANGED <<ctx, metrics, conn, wpc, rpc, werr, rres, writeDone, readDone,
                 calls, closes>>

\* The forward-mode branch up to its return, its recursion or the end of the
\* dial, for a dial that returned derr and resolvers that answered p and b:
\* the context and the counters it leaves, where it goes on, what it
\* returns, and whether it invoked the callback.  Nothing has been returned
\* yet when a dial is made.
DialForwardStep(c, m, derr, p, b) ==
  LET c1 == ForwardPrelude(c) IN
  IF derr = Nil
  THEN [ctx |-> c1, metrics |-> ObserveTLS(c1, m), pc |-> "wrap",
        ret |-> NoRet, invoked |-> FALSE]
  ELSE LET r == ResolverChain(c1, p, b)
           m1 == IF RealFailure(r) THEN SetErrorMetric(c1, m) ELSE m
           fb == c1.ForwardProxyErrorFallback
           c2 == IF HasFallback(c1) THEN ConsumeFallback(c1) ELSE c1
       IN IF HasFallback(c1) /\ RetryWith(fb)
          THEN [ctx |-> InstallFallback(c2, fb), metrics |-> m1, pc |-> "enter",
                ret |-> NoRet, invoked |-> TRUE]
          ELSE [ctx |-> c2, metrics |-> m1, pc |-> "done",
                ret |-> [resp |-> Nil, err |-> DialFailureError(derr, r)],
                invoked |-> HasFallback(c1)]

\* Forward mode: dial through the forward proxy; on failure classify with
\* the resolver chain, consume the fallback and retry or return.
DialForward ==
  /\ pc = "dial"
  /\ ForwardMode(ctx)
  /\ LET c1 == ForwardPrelude(ctx) IN
     \E derr \in DialErrors \cup {Nil} :
     \E p \in (IF derr # Nil THEN ResolveOutcomes ELSE {NoAnswer}) :
     \E b \in (IF derr # Nil /\ p.err # Nil /\ c1.BackupDNSResolver # ""
               THEN ResolveOutcomes ELSE {NoAnswer}) :
       LET s == DialForwardStep(ctx, metrics, derr, p, b)
           fb == c1.ForwardProxyErrorFallback
       IN /\ ctx' = s.ctx
          /\ metrics' = s.metrics
          /\ pc' = s.pc
          /\ ret' = s.ret
          /\ hist' = IF derr = Nil
                     THEN [hist EXCEPT !.dials = Append(@, DialEntry(c1, Nil))]
                     ELSE [hist EXCEPT
                             !.dials = Append(@, DialEntry(c1, derr)),
                             !.failure = FailureEntry(c1, p, b, s.metrics # metrics),
                             !.fbAddr = IF s.invoked THEN fb.addr ELSE @,
                             !.dialErr = derr,
                             !.fallbackCalls = IF s.invoked THEN @ + 1 ELSE @,
                             !.retries = IF s.pc = "enter" THEN @ + 1 ELSE @,
                             !.exit = IF s.pc = "done" THEN "dial" ELSE @]
  /\ UNCHANGED <<conn, wpc, rpc, werr, rres, writeDone, readDone, calls, closes>>

\* Direct mode: dial the target; a failure is returned as it is.
DialDirect ==
  /\ pc = "dial"
  /\ ~ForwardMode(ctx)
  /\ \E derr \in DialErrors \cup {Nil} :
       /\ hist' = [hist EXCEPT
                     !.dials = Append(@, DialEntry(ctx, derr)),
                     !.dialErr = IF derr # Nil THEN derr ELSE @,
                     !.exit = IF derr # Nil THEN "dial" ELSE @]
       /\ IF derr = Nil
          THEN pc' = "wrap" /\ UNCHANGED ret
          ELSE pc' = "done" /\ ret' = [resp |-> Nil, err |-> derr]
  /\ UNCHANGED <<ctx, metrics, conn, wpc, rpc, werr, rres, writeDone, readDone,
                 calls, closes>>

\* Wrap the raw connection, tune it, make the channels and start the workers.
WrapAndTune ==
  /\ pc = "wrap"
  /\ \E raw \in RawConns : conn' = WrapAndTuneConn(ctx, raw)
  /\ writeDone' = <<>> /\ readDone' = <<>>
  /\ wpc' = "write" /\ rpc' = "read"
  /\ pc' = "waitWrite"
  /\ UNCHANGED <<ctx, metrics, werr, rres, ret, calls, closes, hist>>

\* -------------------------------------------- the instrumented connection
\* conn.WriteTimeout > 0 / conn.ReadTimeout > 0: a deadline is set before
\* the raw call only then.
DeadlineArmed(t) == t > 0

\* proxyTCPConn.Write: the raw Write moved n bytes and returned e.
ConnWrite(cn, n, e) ==
  LET armed == [cn EXCEPT !.wDeadline = IF DeadlineArmed(cn.WriteTimeout) THEN TRUE ELSE @,
                          !.wireSent = @ + n]
  IN IF e # Nil
     THEN armed
     ELSE [armed EXCEPT !.BytesWrote = @ + n, !.wDeadline = FALSE]

\* Variant: Read adds what it read to the write counter.
ConnReadCountsAsWrite(cn, n, e) ==
  LET armed == [cn EXCEPT !.rDeadline = IF cn.ReadTimeout > 0 THEN TRUE ELSE @,
                          !.wireRcvd = @ + n]
  IN IF e # Nil
     THEN armed
     ELSE [armed EXCEPT !.BytesWrote = @ + n, !.rDeadline = FALSE]

\* proxyTCPConn.Read: the raw Read moved n bytes and returned e.
ConnRead(cn, n, e) ==
  LET armed == [cn EXCEPT !.rDeadline = IF DeadlineArmed(cn.ReadTimeout) THEN TRUE ELSE @,
                          !.wireRcvd = @ + n]
  IN IF e # Nil
     THEN armed
     ELSE [armed EXCEPT !.BytesRead = @ + n, !.rDeadline = FALSE]

\* connCloser.Close: close the connection, then the wrapped body.
CloseBody(cn) == [cn EXCEPT !.connCloses = @ + 1, !.bodyCloses = @ + 1]

\* make(chan error, 1) / make(chan responseAndError, 1): the capacity
ChanCap == 1

\* Variant: the channels have no buffer and nobody is receiving.
ChanHasRoomUnbuffered(ch) == FALSE

\* A send on ch does not block: its buffer is not full.
ChanHasRoom(ch) == Len(ch) < ChanCap

\* ------------------------------------------------------------ the writer
\* The value the writer signals: the error of req.Write / req.WriteProxy;
\* the result of writer.Flush() is dropped.
WriterResult(serr, ferr) == serr

\* Serialize the request (of n bytes, less than the buffer) into the buffered
\* writer and, if that worked, flush it to the connection in one conn.Write.
\* With no write deadline armed and a peer that accepts nothing, the raw
\* Write never returns: the writer stays inside it ("blocked").
WriterWrite ==
  /\ wpc = "write"
  /\ \/ /\ \E serr \in WriteErrors \cup {Nil}, n \in 1..MaxBytes :
             IF serr # Nil
             THEN /\ werr' = WriterResult(serr, Nil)
                  /\ UNCHANGED <<conn, hist>>
             ELSE \E ferr \in WriteErrors \cup {Nil} :
                    /\ conn' = ConnWrite(conn, IF ferr = Nil THEN n ELSE n - 1, ferr)
                    /\ werr' = WriterResult(Nil, ferr)
                    /\ hist' = [hist EXCEPT !.flushFailed = ferr # Nil]
        /\ wpc' = "signal"
     \/ /\ ~DeadlineArmed(conn.WriteTimeout)
        /\ wpc' = "blocked"
        /\ UNCHANGED <<conn, werr, hist>>
  /\ UNCHANGED <<ctx, metrics, pc, rpc, rres, writeDone, readDone, ret, calls, closes>>

\* writeDone <- err
WriterSignal ==
  /\ wpc = "signal"
  /\ ChanHasRoom(writeDone)
  /\ writeDone' = Append(writeDone, werr)
  /\ wpc' = "exit"
  /\ UNCHANGED <<ctx, metrics, conn, pc, rpc, werr, rres, readDone, ret, calls,
                 closes, hist>>

\* ------------------------------------------------------------ the reader
\* One conn.Read made by http.ReadResponse through the buffered reader: it
\* fails, or it delivers bytes after which the response head is still
\* incomplete, complete, or malformed. With no read deadline armed and a
\* peer that sends nothing, the raw Read never returns ("blocked").
ReaderRead ==
  /\ rpc = "read"
  /\ hist' = [hist EXCEPT !.readTried = TRUE]
  /\ \/ \E e \in ReadErrors :
          /\ conn' = ConnRead(conn, 0, e)
          /\ rres' = [resp |-> Nil, err |-> e]
          /\ rpc' = "signal"
     \/ \E n \in 1..(MaxBytes - conn.BytesRead) :
          /\ conn' = ConnRead(conn, n, Nil)
          /\ \/ /\ conn.BytesRead + n < MaxBytes
                /\ rpc' = "read"
                /\ UNCHANGED rres
             \/ /\ rres' = [resp |-> "resp", err |-> Nil]
                /\ rpc' = "signal"
             \/ /\ rres' = [resp |-> Nil, err |-> "malformed HTTP response"]
                /\ rpc' = "signal"
     \/ /\ ~DeadlineArmed(conn.ReadTimeout)
        /\ rpc' = "blocked"
        /\ UNCHANGED <<conn, rres>>
  /\ UNCHANGED <<ctx, metrics, pc, wpc, werr, writeDone, readDone, ret, calls, closes>>

\* readDone <- responseAndError{resp, err}
ReaderSignal ==
  /\ rpc = "signal"
  /\ ChanHasRoom(readDone)
  /\ readDone' = Append(readDone, rres)
  /\ rpc' = "exit"
  /\ UNCHANGED <<ctx, metrics, conn, pc, wpc, werr, rres, writeDone, ret, calls,
                 closes, hist>>

\* ------------------------------------------- the orchestrator, continued
\* Variant: the value received from writeDone is not looked at.
WriteFailedNever(e) == FALSE

\* err != nil, for the value received from writeDone
WriteFailed(e) == e # Nil

\* ctx.BytesSent = conn.BytesWrote; ctx.BytesReceived = conn.BytesRead
RecordBytes(c, cn) ==
  [c EXCEPT !.BytesSent = cn.BytesWrote, !.BytesReceived = cn.BytesRead]

\* Variant: a timeout is counted like any other failure.
ClassifyErrorAlways(c, m, e) == SetErrorMetric(c, m)

\* The error metric of a write or read failure: not for a timeout.
ClassifyError(c, m, e) == IF ~ContainsTimeout(e) THEN SetErrorMetric(c, m) ELSE m

\* What follows the receipt of e from writeDone.
RecvWriteStep(c, m, cn, e) ==
  IF WriteFailed(e)
  THEN [ctx |-> c, metrics |-> ClassifyError(c, m, e), pc |-> "done",
        ret |-> [resp |-> Nil, err |-> e]]
  ELSE [ctx |-> RecordBytes(c, cn), metrics |-> m, pc |-> "waitRead",
        ret |-> NoRet]

\* What follows the receipt of r from readDone.
RecvReadStep(c, m, cn, r) ==
  IF r.err # Nil
  THEN [ctx |-> c, metrics |-> ClassifyError(c, m, r.err), pc |-> "done",
        ret |-> [resp |-> Nil, err |-> r.err]]
  ELSE [ctx |-> c, metrics |-> AddBandwidth(c, SetSuccessMetric(c, m), cn),
        pc |-> "done", ret |-> [resp |-> r.resp, err |-> Nil]]

\* err := <-writeDone: return on a failure, else record the byte counts.
RecvWriteDone ==
  /\ pc = "waitWrite"
  /\ Len(writeDone) > 0
  /\ LET s == RecvWriteStep(ctx, metrics, conn, Head(writeDone)) IN
       /\ writeDone' = Tail(writeDone)
       /\ ctx' = s.ctx
       /\ metrics' = s.metrics
       /\ pc' = s.pc
       /\ ret' = s.ret
       /\ hist' = IF s.pc = "done" THEN [hist EXCEPT !.exit = "write"] ELSE hist
  /\ UNCHANGED <<conn, wpc, rpc, werr, rres, readDone, calls, closes>>

\* r := <-readDone: return the reader's error or the response.
RecvReadDone ==
  /\ pc = "waitRead"
  /\ Len(readDone) > 0
  /\ LET r == Head(readDone)
         s == RecvReadStep(ctx, metrics, conn, r)
     IN /\ readDone' = Tail(readDone)
        /\ ctx' = s.ctx
        /\ metrics' = s.metrics
        /\ pc' = s.pc
        /\ ret' = s.ret
        /\ hist' = IF r.err # Nil
                   THEN [hist EXCEPT !.exit = "read", !.readRecv = TRUE]
                   ELSE [hist EXCEPT !.exit = "ok", !.readRecv = TRUE,
                                     !.okMetric = TRUE]
  /\ UNCHANGED <<conn, wpc, rpc, werr, rres, writeDone, calls, closes>>

\* The caller closes the body of the response RoundTrip returned.
BodyClose ==
  /\ pc = "done"
  /\ hist.exit = "ok"
  /\ closes < MaxCloses
  /\ conn' = CloseBody(conn)
  /\ closes' = closes + 1
  /\ UNCHANGED <<ctx, metrics, pc, wpc, rpc, werr, rres, writeDone, readDone,
                 ret, calls, hist>>

Next ==
  \/ Call
  \/ Enter
  \/ DialForward
  \/ DialDirect
  \/ WrapAndTune
  \/ WriterWrite
  \/ WriterSignal
  \/ ReaderRead
  \/ ReaderSignal
  \/ RecvWriteDone
  \/ RecvReadDone
  \/ BodyClose

Spec == Init /\ [][Next]_vars

TypeOK ==
  /\ pc \in {"idle", "enter", "dial", "wrap", "waitWrite", "waitRead", "done"}
  /\ wpc \in {"off", "write", "blocked", "signal", "exit"}
  /\ rpc \in {"off", "read", "blocked", "signal", "exit"}
  /\ Len(writeDone) <= 1 /\ Len(readDone) <= 1
  /\ calls \in 0..MaxCalls
  /\ closes \in 0..MaxCloses

\* ================================================================ claims
AfterDial == pc \in {"wrap", "waitWrite", "waitRead", "done"}

\* C1: the fallback callback is invoked at most once on a context, over the
\* recursive re-entry and over repeated calls, and once it has been invoked
\* it is nil in every later state.
C1_FallbackAtMostOnce ==
  /\ hist.fallbackCalls <= 1
  /\ hist.fallbackCalls >= 1 => ~ctx.ForwardProxyErrorFallback.present

\* A second call fails to dial in forward mode after the callback was used
\* up by the first call.
C1_Witness ==
  /\ calls = 2 /\ pc = "done" /\ hist.exit = "dial"
  /\ hist.fallbackCalls = 1
  /\ Len(hist.dials) = 1 /\ hist.dials[1].proxy # "" /\ ~hist.dials[1].fb

C3_Original ==
  (pc = "done" /\ hist.exit = "dial") => (ret.resp = Nil /\ ret.err = hist.dialErr)

\* C4 as stated: the built-in orchestrator returns either a response and a
\* nil error, or a nil response and an error.
C4_Original ==
  (pc = "done" /\ ~hist.usedRT)
    => \/ ret.resp # Nil /\ ret.err = Nil
       \/ ret.resp = Nil /\ ret.err # Nil

C6_Original ==
  (pc = "done" /\ hist.exit = "ok" /\ ~hist.flushFailed)
    => (ctx.BytesSent = conn.wireSent /\ ctx.BytesReceived = conn.wireRcvd)

\* C7: once the connection is wrapped and tuned, keepalive was attempted
\* exactly in direct mode; if it was attempted and failed the timeouts are
\* the caller's proxy deadlines and deadline errors are not ignored; in all
\* other cases the timeouts are 5s and 5s and deadline errors are ignored.
C7_TimeoutRegime ==
  wpc # "off"
    => /\ conn.kaAttempted <=> (ctx.ForwardProxy = "")
       /\ conn.kaFailed => conn.kaAttempted
       /\ IF conn.kaAttempted /\ conn.kaFailed
          THEN /\ conn.ReadTimeout = ctx.ProxyReadDeadline
               /\ conn.WriteTimeout = ctx.ProxyWriteDeadline
               /\ ~conn.IgnoreDeadlineErrors
          ELSE /\ conn.ReadTimeout = 5
               /\ conn.WriteTimeout = 5
               /\ conn.IgnoreDeadlineErrors

\* Direct mode, keepalive failed, the caller's deadlines 7s and 9s are in force.
C7_Witness ==
  /\ wpc # "off" /\ conn.kaAttempted /\ conn.kaFailed
  /\ conn.ReadTimeout = 7 /\ conn.WriteTimeout = 9

\* C8 as stated: however often the returned body is closed, the underlying
\* connection is closed exactly once.
C8_Original ==
  closes >= 1 => conn.connCloses = 1

\* C9 as stated: on a dial failure the error metric is incremented exactly
\* when the resolver chain yields an address in each family.
C9_Original ==
  LET f == hist.failure
      r == IF f.p.err # Nil /\ f.backup THEN f.b ELSE f.p
  IN f.set => (f.inc <=> (r.c4 > 0 /\ r.c6 > 0))

\* C9 amended: on a forward-mode dial failure with a request counter
\* configured, the error metric is incremented exactly when the resolver
\* chain (the primary, or the backup when the primary fails and a backup is
\* configured) yields an address in each family; with no request counter
\* configured it is never incremented.
C9_ErrorMetricOnRealFailure ==
  LET f == hist.failure
      r == IF f.p.err # Nil /\ f.backup THEN f.b ELSE f.p
  IN f.set => (f.inc <=> (f.requests /\ r.c4 > 0 /\ r.c6 > 0))

\* The primary resolver failed, the backup found both families, the metric
\* was incremented.
C9_Witness ==
  /\ hist.failure.set /\ hist.failure.requests /\ hist.failure.inc
  /\ hist.failure.p.err # Nil /\ hist.failure.backup
  /\ hist.failure.b.c4 > 0 /\ hist.failure.b.c6 > 0

\* C10: when a RoundTripper is supplied, entering RoundTrip returns that
\* RoundTripper's response and error and does nothing else: no dial, no
\* callback, no metric, no worker, no change to the context.
C10_RoundTripperReplaces ==
  [][(pc = "enter" /\ ctx.RoundTripper.present)
       => /\ pc' = "done"
          /\ ret' = [resp |-> ctx.RoundTripper.resp, err |-> ctx.RoundTripper.err]
          /\ hist' = [hist EXCEPT !.usedRT = TRUE, !.exit = "roundTripper"]
          /\ UNCHANGED <<ctx, metrics, conn, wpc, rpc, writeDone, readDone>>]_vars

\* A call was answered by the supplied RoundTripper, here with its error.
C10_Witness ==
  /\ pc = "done" /\ hist.usedRT
  /\ ret = [resp |-> Nil, err |-> "rt: failed"]
  /\ hist.dials = <<>> /\ metrics = NoMetrics

\* C12 as stated: when RoundTrip returns an error after a successful dial
\* (the writer or the reader failed), the connection of that attempt has
\* been closed.
C12_Original ==
  (pc = "done" /\ hist.exit \in {"write", "read"}) => conn.connCloses >= 1

\* C14 as stated: a writer whose flush failed signals an error, never a
\* successful write.
C14_Original ==
  (wpc = "exit" /\ hist.flushFailed) => werr # Nil

\* C13: the orchestrator consumes the writer's signal before the reader's.
\* A reader that finishes first leaves its result in readDone until the
\* writer's signal has been received; the byte counts are copied from the
\* connection's counters exactly on the step that receives a nil error from
\* writeDone, which is also the only step that starts the wait on the
\* reader; and no signal is lost: a worker about to send finds its channel
\* empty, and a channel the orchestrator waits on is either filled or still
\* has its worker in its connection call or about to send.
C13_WriterFirst ==
  [][ /\ (calls' = calls /\ Len(readDone') < Len(readDone))
           => (pc = "waitRead" /\ wpc = "exit" /\ werr = Nil /\ writeDone = <<>>)
      /\ (pc' = "waitWrite" /\ rpc' = "exit") => Len(readDone') = 1
      /\ (pc' = "waitRead" /\ pc # "waitRead")
           => /\ pc = "waitWrite" /\ writeDone = <<Nil>>
              /\ ctx'.BytesSent = conn.BytesWrote
              /\ ctx'.BytesReceived = conn.BytesRead
      /\ (ctx'.BytesSent # ctx.BytesSent \/ ctx'.BytesReceived # ctx.BytesReceived)
           => (pc = "waitWrite" /\ pc' = "waitRead" /\ writeDone = <<Nil>>)
      /\ wpc' = "signal" => writeDone' = <<>>
      /\ rpc' = "signal" => readDone' = <<>>
      /\ pc' = "waitWrite" => (Len(writeDone') = 1 \/ wpc' \in {"write", "blocked", "signal"})
      /\ pc' = "waitRead" => (Len(readDone') = 1 \/ rpc' \in {"read", "blocked", "signal"})
    ]_vars

\* The reader has finished and signalled while the writer has not yet
\* written: its result is held in the channel.
C13_Witness ==
  /\ pc = "waitWrite" /\ wpc = "write"
  /\ rpc = "exit" /\ Len(readDone) = 1

\* The step on which RoundTrip returns a writer's or a reader's error.
ExchangeFails == pc \in {"waitWrite", "waitRead"} /\ pc' = "done" /\ ret'.resp = Nil

\* The error the orchestrator is about to receive from the channel it waits on.
Signalled == IF pc = "waitWrite" THEN Head(writeDone) ELSE Head(readDone).err

\* C15 as stated: on a writer failure and on a reader failure the error
\* metric is incremented exactly when the error's text has no "timeout",
\* and the same error is returned.
C15_Original ==
  [][ExchangeFails
       => /\ ret'.err = Signalled
          /\ (metrics' # metrics) <=> ~ContainsTimeout(Signalled)]_vars

\* C15 amended: on a writer failure and on a reader failure the same error
\* is returned; a failure whose text contains "timeout" never increments the
\* error metric; any other failure increments it exactly when the exchange
\* goes through a forward proxy and a request counter is configured, and
\* then by one, under the "err" outcome.
C15_ErrorMetricUnlessTimeout ==
  [][ExchangeFails
       => /\ ret'.err = Signalled
          /\ (metrics' # metrics)
               <=> /\ Signalled \notin {"write: i/o timeout", "read: i/o timeout"}
                   /\ ctx.ForwardProxy # ""
                   /\ ctx.ForwardMetricsCounters.Requests
          /\ \A l \in Labels :
               metrics'.Requests[l] - metrics.Requests[l]
                 = IF metrics' # metrics /\ l = <<IF ctx.ForwardProxy = LocalProxy
                                                   THEN "local" ELSE "spoof", "err">>
                   THEN 1 ELSE 0
          /\ metrics'.ProxyBandwidth = metrics.ProxyBandwidth]_vars

\* A read timed out behind a forward proxy with a request counter: the
\* error came back and nothing was counted.
C15_Witness ==
  /\ calls = 1 /\ pc = "done" /\ hist.exit = "read"
  /\ ret = [resp |-> Nil, err |-> "read: i/o timeout"]
  /\ ctx.ForwardProxy # "" /\ ctx.ForwardMetricsCounters.Requests
  /\ \A l \in Labels : metrics.Requests[l] = 0

\* The step on which the writer's Flush calls conn.Write, and the step on
\* which the reader calls conn.Read.
WriteCall ==
  wpc = "write" /\ wpc' = "signal"
    /\ (hist'.flushFailed \/ conn'.wireSent > conn.wireSent)
ReadCall == rpc = "read" /\ (rpc' = "signal" \/ conn'.wireRcvd > conn.wireRcvd)

C18_FallbackInstall ==
  [][(pc = "dial" /\ pc' = "enter")
       => LET fb == ctx.ForwardProxyErrorFallback IN
          /\ fb.present /\ fb.addr # ""
          /\ ctx'.ForwardProxy = fb.addr
          /\ ~ctx'.ForwardProxyErrorFallback.present
          /\ IF ctx.ForwardProxyErrorFallbackAuth
             THEN /\ ctx'.ForwardProxyAuth = fb.extra
                  /\ ctx'.Accounting = ctx.Accounting
             ELSE /\ ctx'.Accounting = fb.extra
                  /\ ctx'.ForwardProxyAuth = ctx.ForwardProxyAuth]_vars

\* A retry was made with the flag set: the string is in ForwardProxyAuth
\* and Accounting still has its first value.
C18_Witness ==
  /\ hist.retries = 1 /\ ctx.ForwardProxyErrorFallbackAuth
  /\ ctx.ForwardProxy = FallbackProxy
  /\ ctx.ForwardProxyAuth = "x1" /\ ctx.Accounting = "acct0"

\* C19: within one top-level call at most two dials are made and only the
\* last one can have succeeded; once a dial has succeeded there is no
\* further dial, no re-entry and no invocation of the callback, and a
\* writer's or reader's error is returned as it is; a dial, the first or
\* the retry, starts with no connection and no worker of that call, so a
\* retry never reuses a connection.
C19_NoRetryAfterDial ==
  [][calls' = calls
       => LET d == hist.dials
              e == hist'.dials
          IN /\ Len(e) <= 2
             /\ \A i \in 1..(Len(e) - 1) : ~e[i].ok
             /\ (Len(d) >= 1 /\ d[Len(d)].ok)
                  => /\ e = d
                     /\ hist'.fallbackCalls = hist.fallbackCalls
                     /\ hist'.retries = hist.retries
                     /\ pc' \notin {"enter", "dial"}
             /\ ExchangeFails => (ret'.err = Signalled /\ e = d)
             /\ Len(e) > Len(d)
                  => (conn = NoConn /\ wpc = "off" /\ rpc = "off")]_vars

\* A retry dialed the fallback proxy, that dial succeeded, and the writer
\* then failed: the call ended there with two dials.
C19_Witness ==
  /\ pc = "done" /\ hist.exit = "write" /\ hist.retries = 1
  /\ Len(hist.dials) = 2 /\ ~hist.dials[1].ok /\ hist.dials[2].ok

\* C20: a dial failure in direct mode returns the dial's error on that step
\* and changes nothing in the context: the callback is neither invoked nor
\* cleared, no resolver is consulted, no metric is recorded.
C20_DirectDialFailure ==
  [][(pc = "dial" /\ ctx.ForwardProxy = "" /\ pc' # "wrap" /\ pc' # "dial")
       => /\ pc' = "done"
          /\ ret'.resp = Nil /\ ret'.err \in DialErrors
          /\ ret'.err = hist'.dialErr
          /\ ctx' = ctx
          /\ metrics' = metrics
          /\ hist'.fallbackCalls = hist.fallbackCalls
          /\ ~hist'.failure.set
          /\ hist'.retries = hist.retries]_vars

\* A direct-mode dial failed while a callback was present: the callback is
\* still there and the dial's error came back.
C20_Witness ==
  /\ pc = "done" /\ hist.exit = "dial" /\ ctx.ForwardProxy = ""
  /\ ctx.ForwardProxyErrorFallback.present /\ hist.fallbackCalls = 0
  /\ ret.err \in DialErrors

\* C17 as stated: each wait of the orchestrator is bounded by a deadline
\* armed on the connection: while it waits for a worker's signal, that
\* worker is never inside a connection call that has no deadline and that
\* the peer leaves unanswered.
C17_Original ==
  /\ (pc = "waitWrite" /\ writeDone = <<>>) => wpc # "blocked"
  /\ (pc = "waitRead" /\ readDone = <<>>) => rpc # "blocked"

\* The same context with a nil metrics collaborator.
NilMetrics(c) ==
  [c EXCEPT !.ForwardMetricsCounters =
     [Requests |-> FALSE, ProxyBandwidth |-> FALSE, TLSTimes |-> FALSE]]

\* The step t of the run without metrics matches the step s of the run with
\* metrics: same continuation, same return, same use of the callback, same
\* context apart from the collaborator, and nothing counted.
SameOutcome(s, t) ==
  /\ t.pc = s.pc
  /\ t.ret = s.ret
  /\ t.ctx = NilMetrics(s.ctx)
  /\ t.metrics = NoMetrics

\* C11: a run with a nil metrics collaborator goes in lock step with the run
\* that has one.  In every reachable state, each step of RoundTrip that
\* reads the context, taken from the same state with the collaborator set
\* to nil and with the same dial, resolver, write and read outcomes,
\* continues at the same place, returns the same response or error, dials
\* and consumes the callback alike and leaves the same context apart from
\* the collaborator.  The other steps read neither the context nor the
\* counters.
C11_MetricsBestEffort ==
  LET e == NilMetrics(ctx) IN
  /\ pc = "enter"
       => (e.RoundTripper = ctx.RoundTripper /\ (UseRoundTripper(e) <=> UseRoundTripper(ctx)))
  /\ pc = "dial"
       => /\ ForwardMode(e) <=> ForwardMode(ctx)
          /\ DialEntry(e, Nil) = DialEntry(ctx, Nil)
          /\ ForwardMode(ctx) =>
             \A derr \in DialErrors \cup {Nil} :
             \A p \in ResolveOutcomes, b \in ResolveOutcomes :
               LET s == DialForwardStep(ctx, metrics, derr, p, b)
                   t == DialForwardStep(e, NoMetrics, derr, p, b)
               IN SameOutcome(s, t) /\ (t.invoked <=> s.invoked)
  /\ pc = "wrap"
       => \A raw \in RawConns : WrapAndTuneConn(e, raw) = WrapAndTuneConn(ctx, raw)
  /\ (pc = "waitWrite" /\ writeDone # <<>>)
       => SameOutcome(RecvWriteStep(ctx, metrics, conn, Head(writeDone)),
                      RecvWriteStep(e, NoMetrics, conn, Head(writeDone)))
  /\ (pc = "waitRead" /\ readDone # <<>>)
       => SameOutcome(RecvReadStep(ctx, metrics, conn, Head(readDone)),
                      RecvReadStep(e, NoMetrics, conn, Head(readDone)))

\* With a collaborator configured, a dial failure was counted and the
\* callback was consumed for a retry that then failed to write, uncounted
\* by the timeout rule or counted again.
C11_Witness ==
  /\ pc = "done" /\ hist.retries = 1 /\ hist.exit = "write"
  /\ ctx.ForwardMetricsCounters.Requests
  /\ metrics.Requests[<<"spoof", "err">>] >= 1
  /\ metrics.TLSTimes >= 1

\* C21: no worker blocks on its send.  A worker that has its value ready
\* can send at once; within a call a channel is filled only by its own
\* worker's send, which ends that worker, so each worker sends once; a
\* worker that has exited does not run again in that call; and when the
\* orchestrator returns on the writer's error it takes nothing from
\* readDone, where the reader's value, sent before or after, stays.
C21_SendNeverBlocks ==
  [][ /\ wpc = "signal" => ENABLED WriterSignal
      /\ rpc = "signal" => ENABLED ReaderSignal
      /\ calls' = calls =>
           /\ Len(writeDone') > Len(writeDone)
                => (wpc = "signal" /\ wpc' = "exit" /\ writeDone' = <<werr>>)
           /\ Len(readDone') > Len(readDone)
                => (rpc = "signal" /\ rpc' = "exit" /\ readDone' = <<rres>>)
           /\ wpc = "exit" => wpc' = "exit"
           /\ rpc = "exit" => rpc' = "exit"
           /\ (pc = "waitWrite" /\ pc' = "done")
                => (readDone' = readDone /\ rpc' = rpc)
           /\ (pc = "done" /\ hist.exit = "write")
                => /\ Len(readDone') >= Len(readDone)
                   /\ rpc' = "exit" => readDone' = <<rres>>
    ]_vars

\* The orchestrator returned the writer's error; the reader got a whole
\* response, sent it and exited, and its value is in the channel that
\* nobody receives from.
C21_Witness ==
  /\ pc = "done" /\ hist.exit = "write" /\ hist.readTried
  /\ wpc = "exit" /\ rpc = "exit"
  /\ writeDone = <<>> /\ readDone = <<rres>> /\ rres.resp = "resp"
====
